---- MODULE Spec2Model ----
(***************************************************************************)
(* Analysis Job Orchestrator: the POST /api/projects handler, the storage  *)
(* operations on a project record, the agent process the handler spawns    *)
(* and the lifecycle events of that agent.                                 *)
(*                                                                         *)
(* The model follows the record of one project (id 1): projects share no   *)
(* mutable state.  Strings that the code inspects (team and leader names)  *)
(* are sequences of one-character strings; optional values (SQL NULL,      *)
(* JavaScript undefined) are the empty set and a present value x is {x}.   *)
(*                                                                         *)
(* Eight specifications share the state:                                    *)
(*   Spec           creation: the POST handler and the agent process       *)
(*   LifecycleSpec  a created project driven by the agent's events         *)
(*   StorageSpec    direct, concurrent storage calls on a created project  *)
(*   ScoreSpec      the score panels of the dashboard, rendered from props *)
(*   BranchSpec     the branch name, as the server and the client build it *)
(*   StatsSpec      the bug counts of the fixes table                      *)
(*   PollSpec       the dashboard's polling of a created project           *)
(*   TimeSpec       the elapsed time shown for a run                       *)
(* The storage layer and the handler are translated from the server code;  *)
(* the handling of worker events (HandleWorkerEvent, OnFailure) is not in  *)
(* the server code and follows the design document.                        *)
(***************************************************************************)
EXTENDS Integers, Sequences, FiniteSets, TLC

\* ------------------------------------------------------------------ bounds
\* Largest value of the wall clock (Date.now(), SQL now()).
MaxClock == 1
\* Number of direct updateProjectStatus calls followed.
MaxStatusCalls == 2
\* Number of direct addTimelineEntry / updateTimelineEntry calls followed.
MaxTimelineCalls == 2
\* Largest attempt number carried by a worker event.
MaxAttempt == 7
\* Largest commit count handed to the score panel.
MaxCommitCount == 31
\* Largest number of detected bugs handed to the score panel.
MaxBugs == 5
\* Largest length of a team name.
MaxNameLen == 3
\* Largest number of bugs of a project.
MaxBugRows == 3
\* Largest number of fetches of one mounted query.
MaxFetches == 3
\* Largest number of whole hours of an end time.
MaxHours == 2

\* --------------------------------------------------------- program constants
\* ALTER TABLE projects ADD COLUMN retry_count integer DEFAULT 0
DefaultRetryCount == 0
\* the mutant of DefaultMaxRetries: one retry fewer
DefaultMaxRetries_Mut == 5 - 1
\* ALTER TABLE projects ADD COLUMN max_retries integer DEFAULT 5
DefaultMaxRetries == 5
\* ALTER TABLE projects ADD COLUMN commit_count integer DEFAULT 0
DefaultCommitCount == 0
\* serial primary key: the first id
FirstId == 1
\* ScoreBreakdownPanel: baseScore = 100
BaseScore == 100

Null == {}
Some(x) == {x}
TheValue(o) == CHOOSE x \in o : TRUE

\* ------------------------------------------------------- branch name (pure)
\* /\s/: the space and the tab stand for every whitespace character
Whitespace == {" ", "\t"}

LowerCase ==
    <<"a", "b", "c", "d", "e", "f", "g", "h", "i", "j", "k", "l", "m",
      "n", "o", "p", "q", "r", "s", "t", "u", "v", "w", "x", "y", "z">>
UpperCase ==
    <<"A", "B", "C", "D", "E", "F", "G", "H", "I", "J", "K", "L", "M",
      "N", "O", "P", "Q", "R", "S", "T", "U", "V", "W", "X", "Y", "Z">>
Digits == {"0", "1", "2", "3", "4", "5", "6", "7", "8", "9"}

\* String.prototype.toUpperCase on one character: a lower-case letter gives its
\* capital, the sharp s (written "sz" here) gives the two characters SS, every
\* other character of the modelled alphabet is kept
ToUpperChar(c) ==
    IF c = "sz" THEN <<"S", "S">>
    ELSE IF \E i \in 1..Len(LowerCase) : LowerCase[i] = c
         THEN <<UpperCase[CHOOSE i \in 1..Len(LowerCase) : LowerCase[i] = c]>>
         ELSE <<c>>

RECURSIVE ToUpperCase(_)
ToUpperCase(s) ==
    IF s = <<>> THEN <<>> ELSE ToUpperChar(Head(s)) \o ToUpperCase(Tail(s))

\* the mutant of CollapseWhitespace: the pattern is /\s/g, so every whitespace
\* character becomes an underscore of its own
CollapseWhitespace_Mut(s) ==
    [i \in 1..Len(s) |-> IF s[i] \in Whitespace THEN "_" ELSE s[i]]

\* .replace(/\s+/g, "_"): every maximal run of whitespace becomes one underscore
RECURSIVE CollapseWhitespace(_)
CollapseWhitespace(s) ==
    IF s = <<>> THEN <<>>
    ELSE IF Head(s) \in Whitespace
         THEN IF Len(s) > 1 /\ s[2] \in Whitespace
              THEN CollapseWhitespace(Tail(s))
              ELSE <<"_">> \o CollapseWhitespace(Tail(s))
         ELSE <<Head(s)>> \o CollapseWhitespace(Tail(s))

\* [A-Z0-9_]
KeptChars == {UpperCase[i] : i \in 1..Len(UpperCase)} \cup Digits \cup {"_"}

\* .replace(/[^A-Z0-9_]/g, ""): drop every other character
RECURSIVE StripOthers(_)
StripOthers(s) ==
    IF s = <<>> THEN <<>>
    ELSE IF Head(s) \in KeptChars
         THEN <<Head(s)>> \o StripOthers(Tail(s))
         ELSE StripOthers(Tail(s))

CleanName(name) == StripOthers(CollapseWhitespace(ToUpperCase(name)))

Suffix == <<"_", "A", "I", "_", "F", "i", "x">>

generateBranchName(teamName, leaderName) ==
    CleanName(teamName) \o <<"_">> \o CleanName(leaderName) \o Suffix

\* --------------------------------------- branch name on the client (pure)
Indices(s) == [i \in 1..Len(s) |-> i]

\* the mutant of ReplaceAllWhitespace: the pattern matches one whitespace
\* character, so every character of a run becomes an underscore
ReplaceAllWhitespace_Mut(s) ==
    [i \in 1..Len(s) |-> IF s[i] \in Whitespace THEN "_" ELSE s[i]]

\* .replaceAll(/\s+/g, "_"): with a global pattern every match, that is every
\* maximal run of whitespace, is replaced; a character is kept or starts a run
ReplaceAllWhitespace(s) ==
    LET starts == SelectSeq(Indices(s),
                            LAMBDA i : s[i] \notin Whitespace \/ i = 1
                                       \/ s[i - 1] \notin Whitespace)
    IN [k \in 1..Len(starts) |->
            IF s[starts[k]] \in Whitespace THEN "_" ELSE s[starts[k]]]

\* .replaceAll(/[^A-Z0-9_]/g, "")
ReplaceAllOthers(s) == SelectSeq(s, LAMBDA c : c \in KeptChars)

clientGenerateBranchName(teamName, leaderName) ==
    LET cleanTeam == ReplaceAllOthers(ReplaceAllWhitespace(ToUpperCase(teamName)))
        cleanLeader == ReplaceAllOthers(ReplaceAllWhitespace(ToUpperCase(leaderName)))
    IN cleanTeam \o <<"_">> \o cleanLeader \o <<"_", "A", "I", "_", "F", "i", "x">>

\* ------------------------------------------------------------ request bodies
UrlGood == "https://github.com/u/r"
UrlShaped(u) == u = UrlGood
RepoUrls == {"", "not a url", UrlGood}
TeamNames == {<<>>, <<"!", "!", "!">>, <<"a", " ", "B", "!">>}
LeaderNames == {<<>>, <<"B", "1">>}

SchemaKeys == <<"repoUrl", "teamName", "leaderName">>

GoodTeam == <<"a", " ", "B", "!">>
GoodLeader == <<"B", "1">>

\* JSON bodies a client may post: every field present (at most one of them
\* unusual), or one field missing
FullBodies ==
    { [repoUrl |-> u, teamName |-> GoodTeam, leaderName |-> GoodLeader] : u \in RepoUrls }
    \cup { [repoUrl |-> UrlGood, teamName |-> t, leaderName |-> GoodLeader] : t \in TeamNames }
    \cup { [repoUrl |-> UrlGood, teamName |-> GoodTeam, leaderName |-> l] : l \in LeaderNames }
PartialBodies ==
    { [teamName |-> GoodTeam, leaderName |-> GoodLeader],
      [repoUrl |-> UrlGood, leaderName |-> GoodLeader],
      [repoUrl |-> UrlGood, teamName |-> GoodTeam] }
Bodies == FullBodies \cup PartialBodies

\* insertProjectSchema.parse: the three text NOT NULL columns are required
\* strings; nothing else is checked.  The result is the set of missing keys in
\* schema order (ZodError.errors), empty when the body parses.
ZodErrors(body) ==
    SelectSeq(SchemaKeys, LAMBDA k : k \notin DOMAIN body)

\* ---------------------------------------------------------------- the state
VARIABLES
    projects,   \* the projects table: id -> row
    handler,    \* position of the POST /api/projects handler
    response,   \* the HTTP response of the handler, if sent
    worker,     \* the agent process: "none", "spawn_failed", "alive", "exited",
                \* "closed" (exited and the close listener has run)
    exitCode,   \* exit code of the agent process, once exited
    serverUp,   \* FALSE once an uncaught exception has ended the server
    seen,       \* worker events already applied: <<attempt, kind>>
    calls,      \* direct storage calls in flight, per caller
    acked,      \* ids of timeline entries whose addTimelineEntry has returned
    ncalls,     \* direct storage calls made so far: <<status, timeline>>
    now,        \* the wall clock
    last,       \* the last operation taken
    panel,      \* the score panel: its props and, once rendered, its breakdown
    client      \* another client-side component or helper: its inputs and,
                \* once evaluated, its result

vars ==
    <<projects, handler, response, worker, exitCode, serverUp, seen,
      calls, acked, ncalls, now, last, panel, client>>

Callers == {"c1", "c2"}
Idle == [op |-> "idle"]
\* no score panel is on screen
Unmounted == [rendered |-> FALSE]
\* no other client-side component is under evaluation
NoClient == [component |-> "none"]

Init ==
    /\ projects = <<>>
    /\ handler = [pc |-> "idle"]
    /\ response = Null
    /\ worker = "none"
    /\ exitCode = Null
    /\ serverUp = TRUE
    /\ seen = {}
    /\ calls = [c \in Callers |-> Idle]
    /\ acked = {}
    /\ ncalls = <<0, 0>>
    /\ now = 0
    /\ last = [op |-> "init"]
    /\ panel = Unmounted
    /\ client = NoClient

\* ------------------------------------------------------------------ storage
\* INSERT INTO projects ... RETURNING *: the columns the caller does not give
\* take their SQL defaults.
NewRow(input, branch) ==
    [ id |-> FirstId,
      repoUrl |-> input.repoUrl,
      teamName |-> input.teamName,
      leaderName |-> input.leaderName,
      branchName |-> branch,
      createdAt |-> now,
      completedAt |-> Null,
      status |-> "pending",
      commitCount |-> DefaultCommitCount,
      summary |-> Null,
      retryCount |-> DefaultRetryCount,
      maxRetries |-> DefaultMaxRetries,
      timeline |-> <<>>,
      score |-> Null ]

\* the mutant of InitialEntry: the first entry numbered 2
InitialEntry_Mut ==
    [id |-> <<"run", now>>, timestamp |-> now, attempt |-> 2, status |-> "pending"]
\* the first timeline entry, as the handler builds it:
\* { id: `run-${Date.now()}`, timestamp, attempt: 1, status: "pending" }
InitialEntry ==
    [id |-> <<"run", now>>, timestamp |-> now, attempt |-> 1, status |-> "pending"]

\* ------------------------------------------------- POST /api/projects handler
\* parse the body; on success build the branch name and insert the row
PostCreate(body) ==
    /\ serverUp
    /\ handler.pc = "idle"
    /\ DOMAIN projects = {}
    /\ LET errs == ZodErrors(body) IN
       IF errs # <<>>
       THEN /\ response' = Some([code |-> 400, field |-> errs[1]])
            /\ last' = [op |-> "PostRejected", body |-> body]
            /\ UNCHANGED <<projects, handler>>
       ELSE LET branch == generateBranchName(body.teamName, body.leaderName)
                row == NewRow(body, branch)
            IN /\ projects' = (row.id :> row)
               /\ handler' = [pc |-> "created", id |-> row.id, branch |-> branch]
               /\ response' = Null
               /\ last' = [op |-> "PostCreate", body |-> body]
    /\ UNCHANGED <<worker, exitCode, serverUp, seen, calls, acked, ncalls, now,
                   panel, client>>

\* storage.addTimelineEntry, first half: await this.getProject(projectId)
PostTimelineRead ==
    /\ serverUp
    /\ handler.pc = "created"
    /\ handler' = [handler EXCEPT !.pc = "read"] @@
                   [entry |-> InitialEntry, snap |-> projects[handler.id].timeline]
    /\ last' = [op |-> "PostTimelineRead"]
    /\ UNCHANGED <<projects, response, worker, exitCode, serverUp, seen,
                   calls, acked, ncalls, now, panel, client>>

\* storage.addTimelineEntry, second half: push and UPDATE ... SET timeline
PostTimelineWrite ==
    /\ serverUp
    /\ handler.pc = "read"
    /\ projects' = [projects EXCEPT ![handler.id].timeline = Append(handler.snap, handler.entry)]
    /\ handler' = [pc |-> "written", id |-> handler.id, branch |-> handler.branch]
    /\ acked' = acked \cup {handler.entry.id}
    /\ last' = [op |-> "PostTimelineWrite"]
    /\ UNCHANGED <<response, worker, exitCode, serverUp, seen, calls, ncalls, now,
                   panel, client>>

\* the mutant of PostSpawn: the agent is spawned and the response sent right
\* after createProject, before the first timeline entry is stored
PostSpawn_Mut(started) ==
    /\ serverUp
    /\ handler.pc = "created"
    /\ worker' = IF started THEN "alive" ELSE "spawn_failed"
    /\ response' = Some([code |-> 201, id |-> handler.id])
    /\ handler' = [pc |-> "idle"]
    /\ last' = [op |-> "PostSpawn", started |-> started]
    /\ UNCHANGED <<projects, exitCode, serverUp, seen, calls, acked, ncalls, now,
                   panel, client>>

\* spawn("python", [agent.py, id, ...]), the three listeners, res.status(201)
PostSpawn(started) ==
    /\ serverUp
    /\ handler.pc = "written"
    /\ worker' = IF started THEN "alive" ELSE "spawn_failed"
    /\ response' = Some([code |-> 201, id |-> handler.id])
    /\ handler' = [pc |-> "idle"]
    /\ last' = [op |-> "PostSpawn", started |-> started]
    /\ UNCHANGED <<projects, exitCode, serverUp, seen, calls, acked, ncalls, now,
                   panel, client>>

\* a failed spawn emits 'error' on the child; no listener is attached, so the
\* event is thrown as an uncaught exception and the server process ends
SpawnError ==
    /\ serverUp
    /\ worker = "spawn_failed"
    /\ serverUp' = FALSE
    /\ last' = [op |-> "SpawnError"]
    /\ UNCHANGED <<projects, handler, response, worker, exitCode, seen,
                   calls, acked, ncalls, now, panel, client>>

Tick ==
    /\ now < MaxClock
    /\ now' = now + 1
    /\ last' = [op |-> "Tick"]
    /\ UNCHANGED <<projects, handler, response, worker, exitCode, serverUp,
                   seen, calls, acked, ncalls, panel, client>>

\* ------------------------------------------------------------ score (pure)
\* the mutant of speedBonus: the first tier pays 20
speedBonus_Mut(t) ==
    IF t > 0 /\ t < 180 THEN 20 ELSE IF t < 300 THEN 10 ELSE IF t < 600 THEN 5 ELSE 0

\* ScoreBreakdownPanel: the pure-bonus algorithm
speedBonus(t) ==
    IF t > 0 /\ t < 180 THEN 15 ELSE IF t < 300 THEN 10 ELSE IF t < 600 THEN 5 ELSE 0

Max(a, b) == IF a >= b THEN a ELSE b

\* the mutant of commitBonus: the clamp at 0 is missing
commitBonus_Mut(c) == 30 - c

commitBonus(c) == Max(0, 30 - c)

\* the mutant of qualityBonus: the quotient is truncated, not rounded
qualityBonus_Mut(d, f) == IF d > 0 THEN (20 * f) \div d ELSE 0

\* Math.round(q) is floor(q + 1/2); here q = 20 f / d with d > 0
qualityBonus(d, f) == IF d > 0 THEN (40 * f + d) \div (2 * d) ELSE 0

finalScore(base, t, c, d, f) == base + speedBonus(t) + commitBonus(c) + qualityBonus(d, f)

\* a prop with a default value: undefined takes the default
Default(o, d) == IF o = Null THEN d ELSE TheValue(o)

Optional(S) == {Null} \cup {Some(x) : x \in S}

\* completion times in seconds, on both sides of every tier boundary
CompletionTimes == {-5, 0, 1, 120, 179, 180, 299, 300, 599, 600, 900}

PanelProps(base, t, c, d, f) ==
    [baseScore |-> Some(base), completionTime |-> Some(t), commitCount |-> Some(c),
     totalBugsDetected |-> Some(d), totalBugsFixed |-> Some(f)]

\* the three scenarios of the scoring guide and its live test project
ScoreExamples ==
    { PanelProps(100, 120, 8, 5, 5),
      PanelProps(100, 300, 22, 15, 12),
      PanelProps(100, 900, 45, 50, 40),
      PanelProps(100, 180, 25, 8, 6) }

\* ScoreBreakdownProps: every prop is optional
ScoreProps ==
    [ baseScore : Optional({0}),
      completionTime : Optional(CompletionTimes),
      commitCount : Optional(-1..MaxCommitCount),
      totalBugsDetected : Optional(-1..MaxBugs),
      totalBugsFixed : Optional(-1..(MaxBugs + 1)) ]
    \cup ScoreExamples

\* the panel is mounted with some props
ScoreInit ==
    /\ projects = <<>>
    /\ handler = [pc |-> "idle"]
    /\ response = Null
    /\ worker = "none"
    /\ exitCode = Null
    /\ serverUp = TRUE
    /\ seen = {}
    /\ calls = [c \in Callers |-> Idle]
    /\ acked = {}
    /\ ncalls = <<0, 0>>
    /\ now = 0
    /\ last = [op |-> "init"]
    /\ panel \in {[rendered |-> FALSE, props |-> p] : p \in ScoreProps}
    /\ client = NoClient

\* ScoreBreakdownPanel(props): the defaults of the destructuring, the three
\* bonuses and the final score
ScoreBreakdownPanel ==
    /\ ~panel.rendered
    /\ "props" \in DOMAIN panel
    /\ LET baseScore == Default(panel.props.baseScore, BaseScore)
           completionTime == Default(panel.props.completionTime, 0)
           commitCount == Default(panel.props.commitCount, 0)
           totalBugsDetected == Default(panel.props.totalBugsDetected, 0)
           totalBugsFixed == Default(panel.props.totalBugsFixed, 0)
       IN panel' = [ rendered |-> TRUE,
                     props |-> panel.props,
                     baseScore |-> baseScore,
                     completionTime |-> completionTime,
                     commitCount |-> commitCount,
                     totalBugsDetected |-> totalBugsDetected,
                     totalBugsFixed |-> totalBugsFixed,
                     speedBonus |-> speedBonus(completionTime),
                     commitBonus |-> commitBonus(commitCount),
                     qualityBonus |-> qualityBonus(totalBugsDetected, totalBugsFixed),
                     finalScore |-> finalScore(baseScore, completionTime, commitCount,
                                               totalBugsDetected, totalBugsFixed) ]
    /\ last' = [op |-> "ScoreBreakdownPanel"]
    /\ UNCHANGED <<projects, handler, response, worker, exitCode, serverUp, seen,
                   calls, acked, ncalls, now, client>>

\* ----------------------------------------------- direct storage operations
Statuses == {"pending", "running", "completed", "failed"}
Terminal == {"completed", "failed"}

Summary1 == [totalFiles |-> 15, totalErrors |-> 8, fixedErrors |-> 6]
Summary2 == [totalFiles |-> 5, totalErrors |-> 5, fixedErrors |-> 5]

\* a project id is known to callers once the handler has answered 201
Known(id) == id \in DOMAIN projects /\ \E r \in response : r.code = 201 /\ r.id = id

\* the mutant of UpdatedStatusRow: the UPDATE also rewrites the branch name
UpdatedStatusRow_Mut(row, status, summary) ==
    [row EXCEPT !.status = status,
                !.summary = IF summary = Null THEN row.summary ELSE summary,
                !.branchName = <<>>]

\* updateProjectStatus: UPDATE projects SET status, summary WHERE id; a summary
\* that is undefined is left out of the SET
UpdatedStatusRow(row, status, summary) ==
    [row EXCEPT !.status = status,
                !.summary = IF summary = Null THEN row.summary ELSE summary]

UpdateProjectStatus(id, status, summary) ==
    /\ serverUp
    /\ Known(id)
    /\ ncalls[1] < MaxStatusCalls
    /\ ncalls' = <<ncalls[1] + 1, ncalls[2]>>
    /\ projects' = [projects EXCEPT ![id] = UpdatedStatusRow(projects[id], status, summary)]
    /\ last' = [op |-> "updateProjectStatus"]
    /\ UNCHANGED <<handler, response, worker, exitCode, serverUp, seen,
                   calls, acked, now, panel, client>>

\* timeline.findIndex((e) => e.id === entryId): 0 stands for -1
FindIndex(timeline, entryId) ==
    IF \E i \in 1..Len(timeline) : timeline[i].id = entryId
    THEN CHOOSE i \in 1..Len(timeline) :
            /\ timeline[i].id = entryId
            /\ \A j \in 1..(i - 1) : timeline[j].id # entryId
    ELSE 0

\* { ...entry, ...updates }
Spread(entry, updates) ==
    [k \in DOMAIN entry \cup DOMAIN updates |->
        IF k \in DOMAIN updates THEN updates[k] ELSE entry[k]]

\* attempt numbers of directly added entries: the one the timeline holds, the
\* next one, and one that skips
DirectAttempts == {1, 2, 3}

\* entries a direct caller may add: a fresh id, any small attempt number
DirectEntries(c) ==
    { [id |-> <<c, ncalls[2]>>, timestamp |-> now, attempt |-> a, status |-> "pending"] :
        a \in DirectAttempts }

DirectUpdates ==
    { [status |-> "failed", error |-> "boom"],
      [attempt |-> MaxAttempt],
      [id |-> <<"other", 0>>] }

\* addTimelineEntry, first half: const project = await this.getProject(id)
AddTimelineEntryRead(c, id, entry) ==
    /\ serverUp
    /\ Known(id)
    /\ calls[c] = Idle
    /\ ncalls[2] < MaxTimelineCalls
    /\ ncalls' = <<ncalls[1], ncalls[2] + 1>>
    /\ calls' = [calls EXCEPT ![c] =
                    [op |-> "add", id |-> id, entry |-> entry,
                     snap |-> projects[id].timeline]]
    /\ last' = [op |-> "addTimelineEntryRead"]
    /\ UNCHANGED <<projects, handler, response, worker, exitCode, serverUp,
                   seen, acked, now, panel, client>>

\* addTimelineEntry, second half: timeline.push(entry); UPDATE SET timeline
AddTimelineEntryWrite(c) ==
    /\ serverUp
    /\ calls[c].op = "add"
    /\ projects' = [projects EXCEPT ![calls[c].id].timeline =
                        Append(calls[c].snap, calls[c].entry)]
    /\ acked' = acked \cup {calls[c].entry.id}
    /\ calls' = [calls EXCEPT ![c] = Idle]
    /\ last' = [op |-> "addTimelineEntry"]
    /\ UNCHANGED <<handler, response, worker, exitCode, serverUp, seen, ncalls, now,
                   panel, client>>

\* updateTimelineEntry, first half: getProject and findIndex; a missing entry
\* throws and the call ends
UpdateTimelineEntryRead(c, id, entryId, updates) ==
    /\ serverUp
    /\ Known(id)
    /\ calls[c] = Idle
    /\ ncalls[2] < MaxTimelineCalls
    /\ ncalls' = <<ncalls[1], ncalls[2] + 1>>
    /\ IF FindIndex(projects[id].timeline, entryId) = 0
       THEN /\ last' = [op |-> "updateTimelineEntryThrew"]
            /\ UNCHANGED calls
       ELSE /\ calls' = [calls EXCEPT ![c] =
                            [op |-> "upd", id |-> id, entryId |-> entryId,
                             updates |-> updates, snap |-> projects[id].timeline]]
            /\ last' = [op |-> "updateTimelineEntryRead"]
    /\ UNCHANGED <<projects, handler, response, worker, exitCode, serverUp,
                   seen, acked, now, panel, client>>

\* updateTimelineEntry, second half: timeline[i] = {...}; UPDATE SET timeline
UpdateTimelineEntryWrite(c) ==
    /\ serverUp
    /\ calls[c].op = "upd"
    /\ LET snap == calls[c].snap
           i == FindIndex(snap, calls[c].entryId)
       IN projects' = [projects EXCEPT ![calls[c].id].timeline =
                          [snap EXCEPT ![i] = Spread(snap[i], calls[c].updates)]]
    /\ calls' = [calls EXCEPT ![c] = Idle]
    /\ last' = [op |-> "updateTimelineEntry"]
    /\ UNCHANGED <<handler, response, worker, exitCode, serverUp, seen,
                   acked, ncalls, now, panel, client>>

\* a request to cancel project id: registerRoutes registers POST /api/projects
\* and three GET routes and nothing else, so no handler runs for the request;
\* the record and the agent process stay as they are
CancelProject(id) ==
    /\ serverUp
    /\ Known(id)
    /\ last' = [op |-> "CancelProject"]
    /\ UNCHANGED <<projects, handler, response, worker, exitCode, serverUp, seen,
                   calls, acked, ncalls, now, panel, client>>

\* --------------------------------------------------------- the agent process
\* pythonProcess.stdout.on("data"): console.log
AgentStdout ==
    /\ serverUp
    /\ worker \in {"alive", "exited"}
    /\ last' = [op |-> "AgentStdout"]
    /\ UNCHANGED <<projects, handler, response, worker, exitCode, serverUp, seen,
                   calls, acked, ncalls, now, panel, client>>

\* pythonProcess.stderr.on("data"): console.error
AgentStderr ==
    /\ serverUp
    /\ worker \in {"alive", "exited"}
    /\ last' = [op |-> "AgentStderr"]
    /\ UNCHANGED <<projects, handler, response, worker, exitCode, serverUp, seen,
                   calls, acked, ncalls, now, panel, client>>

\* the agent process ends, with exit code 0 or not
AgentExit(code) ==
    /\ worker = "alive"
    /\ worker' = "exited"
    /\ exitCode' = Some(code)
    /\ last' = [op |-> "AgentExit"]
    /\ UNCHANGED <<projects, handler, response, serverUp, seen, calls, acked, ncalls, now,
                   panel, client>>

\* pythonProcess.on("close", (code) => console.log(...)): the exit code is
\* logged and nothing else happens
OnClose ==
    /\ serverUp
    /\ worker = "exited"
    /\ worker' = "closed"
    /\ last' = [op |-> "OnClose"]
    /\ UNCHANGED <<projects, handler, response, exitCode, serverUp, seen, calls,
                   acked, ncalls, now, panel, client>>

\* ------------------------------------------------- worker events (lifecycle)
EventKinds == {"Started", "Completed", "Failed"}

Payload1 == [summary |-> Summary1, commitCount |-> 25]
Payload2 == [summary |-> Summary2, commitCount |-> 8]
CompletedPayloads == {Payload1, Payload2}
\* only a Completed event carries results
PayloadsOf(kind) == IF kind = "Completed" THEN CompletedPayloads ELSE {Payload1}

\* the attempt a project is on: attempt 1 with no retry, one more per retry
CurrentAttempt(row) == row.retryCount + 1

\* running -> completed: completedAt, commitCount, summary and score are set
OnCompleted(row, payload) ==
    [row EXCEPT !.status = "completed",
                !.completedAt = Some(now),
                !.commitCount = payload.commitCount,
                !.summary = Some(payload.summary),
                !.score = Some(finalScore(BaseScore, now - row.createdAt,
                                          payload.commitCount,
                                          payload.summary.totalErrors,
                                          payload.summary.fixedErrors))]

\* step 1 of OnFailure: the entry of the attempt becomes failed, with the error
MarkFailed(timeline, attempt) ==
    [i \in 1..Len(timeline) |->
        IF timeline[i].attempt = attempt /\ timeline[i].status \in {"pending", "running"}
        THEN Spread(timeline[i], [status |-> "failed", error |-> "worker failed"])
        ELSE timeline[i]]

RetryEntry(attempt) ==
    [id |-> <<"retry", attempt>>, timestamp |-> now, attempt |-> attempt,
     status |-> "pending"]

\* the mutant of OnFailure: the retry budget is compared with <=, so one retry
\* more than maxRetries is granted
OnFailure_Mut(row, attempt) ==
    IF row.retryCount <= row.maxRetries
    THEN [row EXCEPT !.status = "pending",
                     !.retryCount = row.retryCount + 1,
                     !.timeline = Append(MarkFailed(row.timeline, attempt),
                                         RetryEntry(attempt + 1))]
    ELSE [row EXCEPT !.status = "failed",
                     !.completedAt = Some(now),
                     !.timeline = MarkFailed(row.timeline, attempt)]

\* RetryCoordinator.OnFailure: retry while retryCount < maxRetries, else
\* terminal failed
OnFailure(row, attempt) ==
    IF row.retryCount < row.maxRetries
    THEN [row EXCEPT !.status = "pending",
                     !.retryCount = row.retryCount + 1,
                     !.timeline = Append(MarkFailed(row.timeline, attempt),
                                         RetryEntry(attempt + 1))]
    ELSE [row EXCEPT !.status = "failed",
                     !.completedAt = Some(now),
                     !.timeline = MarkFailed(row.timeline, attempt)]

\* the mutant of Outcome: no deduplication, and a Completed or Failed event of
\* the current attempt is applied whenever the attempt has started
Outcome_Mut(row, attempt, kind) ==
    IF attempt < row.retryCount + 1 THEN "stale"
    ELSE IF attempt > row.retryCount + 1 THEN "unknown"
    ELSE IF kind = "Started" /\ row.status = "pending" THEN "applied"
    ELSE IF kind \in {"Completed", "Failed"} /\ row.status # "pending" THEN "applied"
    ELSE "ignored"

\* the mutant of Outcome: an event of an earlier attempt is not recognised as
\* stale and is routed by its kind like an event of the current attempt
Outcome_MutStale(row, attempt, kind) ==
    IF <<attempt, kind>> \in seen THEN "duplicate"
    ELSE IF attempt > row.retryCount + 1 THEN "unknown"
    ELSE IF kind = "Started" /\ row.status = "pending" THEN "applied"
    ELSE IF kind \in {"Completed", "Failed"} /\ row.status = "running" THEN "applied"
    ELSE "ignored"

\* what HandleWorkerEvent does with an event: "duplicate" (already applied),
\* "stale" (for an earlier attempt), "unknown" (for an attempt not yet started),
\* "ignored" (no edge of the state machine from the current status) or "applied"
Outcome(row, attempt, kind) ==
    IF <<attempt, kind>> \in seen THEN "duplicate"
    ELSE IF attempt < CurrentAttempt(row) THEN "stale"
    ELSE IF attempt > CurrentAttempt(row) THEN "unknown"
    ELSE IF kind = "Started" /\ row.status = "pending" THEN "applied"
    ELSE IF kind \in {"Completed", "Failed"} /\ row.status = "running" THEN "applied"
    ELSE "ignored"

Applied(row, attempt, kind, payload) ==
    IF kind = "Started" THEN [row EXCEPT !.status = "running"]
    ELSE IF kind = "Completed" THEN OnCompleted(row, payload)
    ELSE OnFailure(row, attempt)

Redispatched(row, kind) == kind = "Failed" /\ row.retryCount < row.maxRetries

HandleWorkerEvent(id, attempt, kind, payload) ==
    /\ serverUp
    /\ Known(id)
    /\ worker \in {"alive", "exited"}
    /\ LET row == projects[id]
           outcome == Outcome(row, attempt, kind)
       IN /\ last' = [op |-> "HandleWorkerEvent", kind |-> kind, outcome |-> outcome]
          /\ IF outcome = "applied"
             THEN /\ projects' = [projects EXCEPT ![id] = Applied(row, attempt, kind, payload)]
                  /\ seen' = seen \cup {<<attempt, kind>>}
                  /\ IF Redispatched(row, kind)
                     THEN worker' = "alive" /\ exitCode' = Null
                     ELSE UNCHANGED <<worker, exitCode>>
             ELSE UNCHANGED <<projects, seen, worker, exitCode>>
    /\ UNCHANGED <<handler, response, serverUp, calls, acked, ncalls, now, panel, client>>

\* ------------------------------------------------------------ specification
\* Creation: the POST handler from an empty table, and the agent process it
\* spawns.  The handler is followed for the first project only.
Next ==
    \/ \E body \in Bodies : PostCreate(body)
    \/ PostTimelineRead
    \/ PostTimelineWrite
    \/ \E started \in BOOLEAN : PostSpawn(started)
    \/ SpawnError
    \/ Tick
    \/ AgentStdout
    \/ AgentStderr
    \/ \E code \in {0, 1} : AgentExit(code)
    \/ OnClose

Spec == Init /\ [][Next]_vars

\* the state the handler leaves for a well-formed body when the spawn succeeds
Created ==
    /\ now = 0
    /\ projects = (FirstId :> [NewRow([repoUrl |-> UrlGood, teamName |-> GoodTeam,
                                        leaderName |-> GoodLeader],
                                       generateBranchName(GoodTeam, GoodLeader))
                                EXCEPT !.timeline = <<InitialEntry>>])
    /\ handler = [pc |-> "idle"]
    /\ response = Some([code |-> 201, id |-> FirstId])
    /\ worker = "alive"
    /\ exitCode = Null
    /\ serverUp = TRUE
    /\ seen = {}
    /\ calls = [c \in Callers |-> Idle]
    /\ acked = {<<"run", 0>>}
    /\ ncalls = <<0, 0>>
    /\ last = [op |-> "PostSpawn", started |-> TRUE]
    /\ panel = Unmounted
    /\ client = NoClient

\* Lifecycle of a created project: the agent process and its events
LifecycleNext ==
    \/ Tick
    \/ AgentStdout
    \/ AgentStderr
    \/ \E code \in {0, 1} : AgentExit(code)
    \/ OnClose
    \/ \E a \in 1..MaxAttempt, k \in EventKinds : \E pl \in PayloadsOf(k) :
            HandleWorkerEvent(FirstId, a, k, pl)

LifecycleSpec == Created /\ [][LifecycleNext]_vars

\* Concurrent direct storage calls on a created project, and requests to
\* cancel it
StorageNext ==
    \/ CancelProject(FirstId)
    \/ \E st \in Statuses, su \in {Null, Some(Summary2)} :
            UpdateProjectStatus(FirstId, st, su)
    \/ \E c \in Callers : \E e \in DirectEntries(c) : AddTimelineEntryRead(c, FirstId, e)
    \/ \E c \in Callers : AddTimelineEntryWrite(c)
    \/ \E c \in Callers, eid \in {<<"run", 0>>, <<"c1", 0>>}, u \in DirectUpdates :
            UpdateTimelineEntryRead(c, FirstId, eid, u)
    \/ \E c \in Callers : UpdateTimelineEntryWrite(c)

StorageSpec == Created /\ [][StorageNext]_vars

\* ------------------------------------------- EnhancedScoreBreakdown (pure)
enhancedSpeedBonus(t) ==
    IF t > 0 /\ t < 180 THEN 15 ELSE IF t < 300 THEN 10 ELSE IF t < 600 THEN 5 ELSE 0

\* the mutant of enhancedCommitBonus: the penalty of the earlier algorithm,
\* 2 points per commit over 20, is still in place
enhancedCommitBonus_Mut(c) == 0 - Max(0, (c - 20) * 2)

enhancedCommitBonus(c) == Max(0, 30 - c)

enhancedQualityBonus(d, f) == IF d > 0 THEN (40 * f + d) \div (2 * d) ELSE 0

\* const maxPossibleScore = 100 + 15 + 30 + 20
maxPossibleScore == 100 + 15 + 30 + 20

\* EnhancedScoreBreakdown(props), given the props the score panel is given
EnhancedScoreBreakdown ==
    /\ "props" \in DOMAIN panel
    /\ client = NoClient
    /\ LET baseScore == Default(panel.props.baseScore, BaseScore)
           completionTime == Default(panel.props.completionTime, 0)
           commitCount == Default(panel.props.commitCount, 0)
           totalBugsDetected == Default(panel.props.totalBugsDetected, 0)
           totalBugsFixed == Default(panel.props.totalBugsFixed, 0)
           speed == enhancedSpeedBonus(completionTime)
           commit == enhancedCommitBonus(commitCount)
           quality == enhancedQualityBonus(totalBugsDetected, totalBugsFixed)
       IN client' = [ component |-> "EnhancedScoreBreakdown",
                      speedBonus |-> speed,
                      commitBonus |-> commit,
                      qualityBonus |-> quality,
                      finalScore |-> baseScore + speed + commit + quality,
                      maxPossibleScore |-> maxPossibleScore ]
    /\ last' = [op |-> "EnhancedScoreBreakdown"]
    /\ UNCHANGED <<projects, handler, response, worker, exitCode, serverUp, seen,
                   calls, acked, ncalls, now, panel>>

\* --------------------------------------------- branch names, both sides
\* the server state before any request, no score panel on screen
NoServer ==
    /\ projects = <<>>
    /\ handler = [pc |-> "idle"]
    /\ response = Null
    /\ worker = "none"
    /\ exitCode = Null
    /\ serverUp = TRUE
    /\ seen = {}
    /\ calls = [c \in Callers |-> Idle]
    /\ acked = {}
    /\ ncalls = <<0, 0>>
    /\ now = 0
    /\ last = [op |-> "init"]
    /\ panel = Unmounted

\* characters of a name: a lower-case and an upper-case letter, a digit, two
\* kinds of whitespace, punctuation, the underscore, the sharp s
NameChars == {"a", "B", "1", " ", "\t", "!", "_", "sz"}

Names(n) == UNION {[1..k -> NameChars] : k \in 0..n}

LeaderSamples == {<<>>, <<"B", "1">>, <<"a", " ", "\t">>, <<"!">>}

MyTeam == <<"M", "y", " ", "T", "e", "a", "m", "!">>
AliceJohnson == <<"A", "l", "i", "c", "e", " ", "J", "o", "h", "n", "s", "o", "n">>

BranchInputs ==
    (Names(MaxNameLen) \X LeaderSamples) \cup {<<MyTeam, AliceJohnson>>}

BranchInit ==
    /\ NoServer
    /\ client \in {[component |-> "generateBranchName",
                     teamName |-> in[1], leaderName |-> in[2]] : in \in BranchInputs}

\* the server computes the branch name of the two names (routes.ts)
ServerGenerateBranchName ==
    /\ client.component = "generateBranchName"
    /\ "server" \notin DOMAIN client
    /\ client' = client @@
                    [server |-> generateBranchName(client.teamName, client.leaderName)]
    /\ last' = [op |-> "ServerGenerateBranchName"]
    /\ UNCHANGED <<projects, handler, response, worker, exitCode, serverUp, seen,
                   calls, acked, ncalls, now, panel>>

\* the client computes the branch name of the same two names (formatters.ts)
ClientGenerateBranchName ==
    /\ client.component = "generateBranchName"
    /\ "client" \notin DOMAIN client
    /\ client' = client @@
                    [client |-> clientGenerateBranchName(client.teamName,
                                                         client.leaderName)]
    /\ last' = [op |-> "ClientGenerateBranchName"]
    /\ UNCHANGED <<projects, handler, response, worker, exitCode, serverUp, seen,
                   calls, acked, ncalls, now, panel>>

BranchNext ==
    \/ ServerGenerateBranchName
    \/ ClientGenerateBranchName

BranchSpec == BranchInit /\ [][BranchNext]_vars

\* -------------------------------------------------------- elapsed time
\* the mutant of calculateTimeDifference: the minutes are not reduced modulo
\* the hour
calculateTimeDifference_Mut(start, end) ==
    LET totalMs == Max(0, end - start)
        totalSeconds == totalMs \div 1000
        hours == totalSeconds \div 3600
        minutes == totalSeconds \div 60
        seconds == totalSeconds % 60
    IN [hours |-> hours, minutes |-> minutes, seconds |-> seconds,
        totalMs |-> totalMs, formatted |-> <<>>]

\* calculateTimeDifference(startTime, endTime); the times are what getTime()
\* gives, milliseconds; formatted is the list of parts that join(" ") glues
calculateTimeDifference(start, end) ==
    LET totalMs == Max(0, end - start)
        totalSeconds == totalMs \div 1000
        hours == totalSeconds \div 3600
        minutes == (totalSeconds % 3600) \div 60
        seconds == totalSeconds % 60
        parts1 == IF hours > 0 THEN <<(<<hours, "h">>)>> ELSE <<>>
        parts2 == IF minutes > 0 THEN Append(parts1, <<minutes, "m">>) ELSE parts1
        parts3 == IF seconds > 0 \/ Len(parts2) = 0
                  THEN Append(parts2, <<seconds, "s">>) ELSE parts2
    IN [hours |-> hours, minutes |-> minutes, seconds |-> seconds,
        totalMs |-> totalMs, formatted |-> parts3]

\* start times of a run, in milliseconds
StartTimes == {0, 1500, 3600000}

\* end times: every mix of whole hours, of 0, 1 and 59 minutes and seconds, and
\* of 0 and 999 milliseconds
EndTimes ==
    { h * 3600000 + m * 60000 + sec * 1000 + ms :
        h \in 0..MaxHours, m \in {0, 1, 59}, sec \in {0, 1, 59}, ms \in {0, 999} }

\* what new Date() gives when the component renders a run that has no end yet
RenderTime == 3600000 + 61000

\* the props of TotalTimeDisplay: startTime and endTime may each be null
TimeInit ==
    /\ NoServer
    /\ client \in [component : {"TotalTimeDisplay"},
                    startTime : Optional(StartTimes),
                    endTime : Optional(EndTimes)]

\* TotalTimeDisplay: nothing is shown without a start time; a run without an
\* end time is measured up to the time of rendering
TotalTimeDisplay ==
    /\ client.component = "TotalTimeDisplay"
    /\ "timeDiff" \notin DOMAIN client
    /\ client' = client @@
            [timeDiff |->
                IF client.startTime = Null
                THEN Null
                ELSE Some(calculateTimeDifference(TheValue(client.startTime),
                                                  Default(client.endTime, RenderTime)))]
    /\ last' = [op |-> "TotalTimeDisplay"]
    /\ UNCHANGED <<projects, handler, response, worker, exitCode, serverUp, seen,
                   calls, acked, ncalls, now, panel>>

TimeNext == TotalTimeDisplay

TimeSpec == TimeInit /\ [][TimeNext]_vars

\* ------------------------------------------------------- retry counter
\* `${currentAttempt}/${maxRetries}`
formatRetryCounter(currentAttempt, maxRetries) == <<currentAttempt, "/", maxRetries>>

\* CICDTimeline: one "Run Attempt a/maxRetries" label per timeline entry
CICDTimeline(timeline, maxRetries) ==
    [i \in 1..Len(timeline) |-> formatRetryCounter(timeline[i].attempt, maxRetries)]

\* ------------------------------------------------------------- polling
\* refetchInterval: ... ? 3000 : false; Null stands for false
PollInterval == 3000

\* What the query library hands to a refetchInterval function. Its major
\* version is not fixed by the sources: version 4 passes the data of the last
\* fetch, version 5 (the one whose useMutation result has isPending, which
\* Home.tsx reads) passes the Query object, whose data is under state.
QueryLibraries == {4, 5}

RefetchArgument(library, data) ==
    IF library = 4
    THEN data
    ELSE Some([queryKey |-> "/api/projects/:id",
               state |-> [data |-> data, status |-> "success"]])

\* data?.status: undefined (Null) for null and for an object without the key
OptionalStatus(arg) ==
    IF arg = Null THEN Null
    ELSE IF "status" \in DOMAIN TheValue(arg) THEN Some(TheValue(arg).status)
    ELSE Null

\* (data) => data?.status === 'running' || data?.status === 'pending' ? 3000 : false
refetchInterval(arg) ==
    IF OptionalStatus(arg) = Some("running") \/ OptionalStatus(arg) = Some("pending")
    THEN Some(PollInterval) ELSE Null

\* project ids a page may be opened for: the created one and an unknown one
PolledIds == {FirstId, FirstId + 1}

\* useProject(id) is mounted: no data yet, the first fetch is due
UseProjectMount(id, library) ==
    /\ client = NoClient
    /\ client' = [component |-> "useProject", id |-> id, library |-> library,
                  data |-> Null, fetches |-> 0, interval |-> Null]
    /\ last' = [op |-> "useProject"]
    /\ UNCHANGED <<projects, handler, response, worker, exitCode, serverUp, seen,
                   calls, acked, ncalls, now, panel>>

\* queryFn: GET /api/projects/:id, 404 gives null; afterwards the library asks
\* refetchInterval whether and when to fetch again
UseProjectFetch ==
    /\ client.component = "useProject"
    /\ serverUp
    /\ client.fetches = 0 \/ client.interval # Null
    /\ client.fetches < MaxFetches
    /\ LET data == IF client.id \in DOMAIN projects
                   THEN Some([id |-> client.id, status |-> projects[client.id].status])
                   ELSE Null
       IN client' = [client EXCEPT
                        !.data = data,
                        !.fetches = @ + 1,
                        !.interval = refetchInterval(RefetchArgument(client.library, data))]
    /\ last' = [op |-> "GetProject"]
    /\ UNCHANGED <<projects, handler, response, worker, exitCode, serverUp, seen,
                   calls, acked, ncalls, now, panel>>

PollNext ==
    \/ \E id \in PolledIds, library \in QueryLibraries : UseProjectMount(id, library)
    \/ UseProjectFetch
    \/ \E st \in Statuses : UpdateProjectStatus(FirstId, st, Null)

PollSpec == Created /\ [][PollNext]_vars

\* ------------------------------------------------------- bug statistics
\* what createBug(bug: any) may be given as the status of a bug: nothing (the
\* key is absent), null, or a text; the column has no CHECK, "skipped" stands
\* for every text other than the three of the column comment
BugStatusTexts == {"fixed", "failed", "pending", "skipped"}

BugInputs ==
    { [filePath |-> "a.py"] }
    \cup { [filePath |-> "a.py", status |-> st] :
              st \in {Null} \cup {Some(t) : t \in BugStatusTexts} }

\* INSERT INTO bugs ... RETURNING *: status text DEFAULT 'pending', nullable
BugRow(bug) ==
    [ filePath |-> bug.filePath,
      status |-> IF "status" \in DOMAIN bug THEN bug.status ELSE Some("pending") ]

BugLists == UNION {[1..n -> BugInputs] : n \in 0..MaxBugRows}

\* the rows getBugsByProject returns, handed to the table as its bugs prop
StatsInit ==
    /\ NoServer
    /\ client \in {[component |-> "EnhancedFixesAppliedTable",
                     bugs |-> [i \in 1..Len(l) |-> BugRow(l[i])]] : l \in BugLists}

\* bugs.filter((b) => b.status === status).length
CountStatus(bugs, status) ==
    Cardinality({i \in 1..Len(bugs) : bugs[i].status = Some(status)})

\* stats.total > 0 ? Math.round((stats.fixed / stats.total) * 100) : 0
SuccessRate(stats) ==
    IF stats.total > 0
    THEN (200 * stats.fixed + stats.total) \div (2 * stats.total)
    ELSE 0

\* EnhancedFixesAppliedTable: the stats object and the success rate shown
EnhancedFixesAppliedTable ==
    /\ client.component = "EnhancedFixesAppliedTable"
    /\ "stats" \notin DOMAIN client
    /\ LET stats == [ total |-> Len(client.bugs),
                      fixed |-> CountStatus(client.bugs, "fixed"),
                      failed |-> CountStatus(client.bugs, "failed"),
                      pending |-> CountStatus(client.bugs, "pending") ]
           \* bug.status.charAt(0) of a row whose status is null throws
           threw == \E i \in 1..Len(client.bugs) : client.bugs[i].status = Null
       IN client' = client @@ [stats |-> stats, successRate |-> SuccessRate(stats),
                               threw |-> threw]
    /\ last' = [op |-> "EnhancedFixesAppliedTable"]
    /\ UNCHANGED <<projects, handler, response, worker, exitCode, serverUp, seen,
                   calls, acked, ncalls, now, panel>>

StatsNext == EnhancedFixesAppliedTable

StatsSpec == StatsInit /\ [][StatsNext]_vars

\* The two score components, each rendered once with each set of props
ScoreNext ==
    \/ ScoreBreakdownPanel
    \/ EnhancedScoreBreakdown

ScoreSpec == ScoreInit /\ [][ScoreNext]_vars

\* ==================================================================== claims
TheRow == projects[FirstId]

\* C1: once a project's status is completed or failed, no worker event and no
\* storage operation changes its status again.
C1_TerminalAbsorbing ==
    [][\A id \in DOMAIN projects :
          projects[id].status \in Terminal => projects'[id].status = projects[id].status]_vars

\* C2: every change of Project.status follows one of exactly four edges:
\* pending -> running, running -> completed, running -> pending (while
\* retryCount < maxRetries), running -> failed (when retryCount = maxRetries).
C2_OnlyFourEdges ==
    [][\A id \in DOMAIN projects :
          LET old == projects[id]
              new == projects'[id]
          IN old.status # new.status =>
                \/ old.status = "pending" /\ new.status = "running"
                \/ old.status = "running" /\ new.status = "completed"
                \/ old.status = "running" /\ new.status = "pending"
                                          /\ old.retryCount < old.maxRetries
                \/ old.status = "running" /\ new.status = "failed"
                                          /\ old.retryCount = old.maxRetries]_vars

\* C3: with maxRetries = 5, the Failed event of each of the attempts 1 to 5
\* leaves the project non-terminal with status pending and starts the next
\* attempt (a pending timeline entry for it); the project becomes terminal
\* failed only on the Failed event of attempt 6, with retryCount = 5.
C3_RetryExhaustion ==
    [][\A a \in 1..MaxAttempt :
          /\ (<<a, "Failed">> \in seen' /\ <<a, "Failed">> \notin seen) =>
                IF a <= 5
                THEN /\ TheRow'.status = "pending"
                     /\ TheRow'.retryCount = a
                     /\ CurrentAttempt(TheRow') = a + 1
                     /\ LET tl == TheRow'.timeline
                        IN tl[Len(tl)].attempt = a + 1 /\ tl[Len(tl)].status = "pending"
                ELSE /\ a = 6
                     /\ TheRow'.status = "failed"
                     /\ TheRow'.retryCount = 5
          /\ (TheRow'.status = "failed" /\ TheRow.status # "failed") =>
                (<<6, "Failed">> \in seen' /\ <<6, "Failed">> \notin seen)]_vars

C3_Witness ==
    /\ TheRow.status = "failed"
    /\ TheRow.retryCount = 5
    /\ \A a \in 1..6 : <<a, "Failed">> \in seen
    /\ Len(TheRow.timeline) = 6
    /\ last = [op |-> "HandleWorkerEvent", kind |-> "Failed", outcome |-> "applied"]

\* C4: delivering a Completed event again for an attempt whose Completed event
\* has been applied changes neither score, summary, completedAt nor status.
C4_CompletedIdempotent ==
    [][\A a \in 1..MaxAttempt, pl \in CompletedPayloads :
          (<<a, "Completed">> \in seen /\ HandleWorkerEvent(FirstId, a, "Completed", pl)) =>
              /\ TheRow'.score = TheRow.score
              /\ TheRow'.summary = TheRow.summary
              /\ TheRow'.completedAt = TheRow.completedAt
              /\ TheRow'.status = TheRow.status]_vars

\* a Completed event has been delivered again, later than the first delivery
\* and with other results
C4_Witness ==
    /\ last = [op |-> "HandleWorkerEvent", kind |-> "Completed", outcome |-> "duplicate"]
    /\ TheRow.status = "completed"
    /\ TheRow.completedAt # Some(now)

\* C5: when two writes to the same project's record are in flight at the same
\* time, the record ends with the effect of both: once every call has
\* returned, the timeline holds one entry per addTimelineEntry that returned.
C5_NoLostUpdate ==
    (\A c \in Callers : calls[c] = Idle) => Len(TheRow.timeline) = Cardinality(acked)

MaxAttemptOf(timeline) ==
    IF timeline = <<>> THEN 0
    ELSE CHOOSE m \in {timeline[i].attempt : i \in 1..Len(timeline)} :
            \A i \in 1..Len(timeline) : timeline[i].attempt <= m

\* C6: adding an entry whose attempt is not exactly (highest existing attempt)
\* + 1 is rejected and leaves the timeline unchanged.
C6_OutOfOrderRejected ==
    [][\A c \in Callers :
          ( /\ calls[c].op = "add"
            /\ AddTimelineEntryWrite(c)
            /\ calls[c].entry.attempt # MaxAttemptOf(TheRow.timeline) + 1 ) =>
              TheRow'.timeline = TheRow.timeline]_vars

\* C7: a worker that exits with a non-zero code is treated as a Failed event
\* for the current attempt, so once its exit has been handled the project is
\* not running any more.
C7_ExitRoutedToFailure ==
    (worker = "closed" /\ exitCode = Some(1)) => TheRow.status # "running"

\* what CreateProject must accept: a URL-shaped repoUrl and names that do not
\* normalize to the empty string
ValidInput(row) ==
    /\ UrlShaped(row.repoUrl)
    /\ CleanName(row.teamName) # <<>>
    /\ CleanName(row.leaderName) # <<>>

\* C8: an input whose repoUrl is empty or not URL-shaped, or whose teamName or
\* leaderName is empty or normalizes to the empty string, is rejected: no
\* project record is persisted for it and no worker is started.
C8_InvalidInputRejected ==
    \A id \in DOMAIN projects : ValidInput(projects[id])

\* C9: immediately after a successful CreateProject the project has status
\* pending, retryCount 0 and a timeline of exactly one entry, with attempt 1
\* and status pending.
C9_InitialState ==
    (last.op = "PostSpawn" /\ \E r \in response : r.code = 201) =>
        /\ TheRow.status = "pending"
        /\ TheRow.retryCount = 0
        /\ Len(TheRow.timeline) = 1
        /\ TheRow.timeline[1].attempt = 1
        /\ TheRow.timeline[1].status = "pending"

C9_Witness ==
    /\ last.op = "PostSpawn"
    /\ \E r \in response : r.code = 201 /\ r.id \in DOMAIN projects
    /\ handler.pc = "idle"

\* C10: when the worker process cannot be started for a newly created project
\* (of a well-formed request), this is treated as a Failed event for attempt 1
\* and the retry policy is applied: the project does not stay pending with no
\* retry recorded and no worker.
C10_DispatchFailureRetried ==
    (worker = "spawn_failed" /\ last.op = "SpawnError" /\ ValidInput(TheRow)) =>
        \/ TheRow.retryCount > 0
        \/ TheRow.status = "failed"
        \/ \E i \in 1..Len(TheRow.timeline) : TheRow.timeline[i].status = "failed"

\* C11: a worker event whose attempt number is lower than the project's
\* current attempt (retryCount + 1) is discarded: status, retryCount, timeline,
\* summary and score stay as they are, and the event is counted as stale or as
\* a duplicate, not as an error.
C11_StaleEventDiscarded ==
    [][\A a \in 1..MaxAttempt, k \in EventKinds : \A pl \in PayloadsOf(k) :
          (a < TheRow.retryCount + 1 /\ HandleWorkerEvent(FirstId, a, k, pl)) =>
              /\ TheRow'.status = TheRow.status
              /\ TheRow'.retryCount = TheRow.retryCount
              /\ TheRow'.timeline = TheRow.timeline
              /\ TheRow'.summary = TheRow.summary
              /\ TheRow'.score = TheRow.score
              /\ last'.outcome \in {"stale", "duplicate"}]_vars

\* a Completed event of an earlier attempt has arrived while a later attempt
\* is running
C11_Witness ==
    /\ last = [op |-> "HandleWorkerEvent", kind |-> "Completed", outcome |-> "stale"]
    /\ TheRow.retryCount >= 1
    /\ TheRow.status = "running"

\* C12: in every reachable state 0 <= retryCount <= maxRetries; a step never
\* lowers retryCount, and it raises retryCount, by exactly 1, exactly when it
\* applies a Failed event that is retried (the project goes back to pending).
C12_RetryCountBounded ==
    /\ \A id \in DOMAIN projects :
          0 <= projects[id].retryCount /\ projects[id].retryCount <= projects[id].maxRetries
    /\ [][\A id \in DOMAIN projects :
            LET old == projects[id]
                new == projects'[id]
                retried == /\ \E a \in 1..MaxAttempt :
                                <<a, "Failed">> \in seen' /\ <<a, "Failed">> \notin seen
                           /\ new.status = "pending"
            IN /\ 0 <= new.retryCount /\ new.retryCount <= new.maxRetries
               /\ new.maxRetries = old.maxRetries
               /\ new.retryCount \in {old.retryCount, old.retryCount + 1}
               /\ (new.retryCount = old.retryCount + 1) <=> retried]_vars

\* the last retry the budget allows has just been granted
C12_Witness ==
    /\ TheRow.retryCount = TheRow.maxRetries
    /\ TheRow.status = "pending"
    /\ last = [op |-> "HandleWorkerEvent", kind |-> "Failed", outcome |-> "applied"]

\* C13: the timeline is append-only across every operation: after a step the
\* entries it held are still there, at the same positions and with the same id
\* and attempt, so the length never decreases and the order never changes.
C13_TimelineAppendOnly ==
    [][\A id \in DOMAIN projects :
          LET old == projects[id].timeline
              new == projects'[id].timeline
          IN /\ Len(new) >= Len(old)
             /\ \A i \in 1..Len(old) :
                    new[i].id = old[i].id /\ new[i].attempt = old[i].attempt]_vars

\* C14: updateTimelineEntry(projectId, entryId, partial) changes neither the
\* id nor the attempt of the entry it targets, whatever the partial update
\* holds, and leaves every other entry of the timeline as it is.
C14_UpdateKeepsIdentity ==
    [][\A c \in Callers :
          (calls[c].op = "upd" /\ UpdateTimelineEntryWrite(c)) =>
              LET old == TheRow.timeline
                  new == TheRow'.timeline
                  i == FindIndex(old, calls[c].entryId)
              IN /\ Len(new) = Len(old)
                 /\ \A j \in 1..Len(old) :
                        IF j = i
                        THEN new[j].id = old[j].id /\ new[j].attempt = old[j].attempt
                        ELSE new[j] = old[j]]_vars

\* C15: a project that has a summary or a score has status completed.
C15_ResultsOnlyWhenCompleted ==
    \A id \in DOMAIN projects :
        (projects[id].summary # Null \/ projects[id].score # Null) =>
            projects[id].status = "completed"

\* C16: CancelProject on a running project moves it to the terminal status
\* failed and stops its worker, and the step after the cancellation (like
\* every later one) adds no timeline entry.
C16_CancelEndsProject ==
    [][/\ (TheRow.status = "running" /\ CancelProject(FirstId)) =>
              (TheRow'.status = "failed" /\ worker' # "alive")
       /\ (last.op = "CancelProject" /\ TheRow.status = "failed") =>
              TheRow'.timeline = TheRow.timeline]_vars

\* C17: the worker is started only after the project record and its first
\* timeline entry have been persisted, and the response (201) is sent without
\* waiting for the worker: when it is sent, the worker has neither exited nor
\* delivered an event.
C17_DispatchAfterPersist ==
    /\ worker # "none" =>
          /\ FirstId \in DOMAIN projects
          /\ Len(TheRow.timeline) >= 1
          /\ TheRow.timeline[1].attempt = 1
          /\ TheRow.timeline[1].id \in acked
    /\ (last.op = "PostSpawn" /\ \E r \in response : r.code = 201) =>
          /\ worker \in {"alive", "spawn_failed"}
          /\ exitCode = Null
          /\ seen = {}

\* the agent has just been spawned and the response sent, the agent still
\* running
C17_Witness ==
    /\ last = [op |-> "PostSpawn", started |-> TRUE]
    /\ worker = "alive"
    /\ exitCode = Null
    /\ response = Some([code |-> 201, id |-> FirstId])
    /\ Len(TheRow.timeline) = 1

\* the tiers of the speed bonus as the formula of the score states them
TierOf(t) ==
    IF t \in 1..179 THEN 15
    ELSE IF t <= 0 \/ t \in 180..299 THEN 10
    ELSE IF t \in 300..599 THEN 5
    ELSE 0

\* r is 20 f / d rounded to the nearest integer, a half rounded up
IsRounded(r, d, f) == 2 * (r * d - 20 * f) <= d /\ 2 * (20 * f - r * d) < d

C19_ScoreAtLeastBase ==
    ( /\ panel.rendered
      /\ panel.totalBugsDetected >= 0
      /\ panel.totalBugsFixed >= 0
      /\ panel.totalBugsFixed <= panel.totalBugsDetected
      /\ panel.commitCount >= 0 ) =>
        /\ panel.finalScore \in Int
        /\ panel.finalScore >= panel.baseScore
        /\ panel.speedBonus >= 0
        /\ panel.commitBonus >= 0
        /\ panel.qualityBonus >= 0

\* no bug was detected and more than 30 commits were made: only the speed
\* bonus is added to the base
C19_Witness ==
    /\ panel.rendered
    /\ panel.totalBugsDetected = 0
    /\ panel.totalBugsFixed = 0
    /\ panel.commitCount > 30
    /\ panel.finalScore = panel.baseScore + panel.speedBonus

\* C20: when the completion time is zero or negative (unknown, not yet
\* measured) the speed bonus is 0.
C20_NoSpeedBonusWithoutTime ==
    (panel.rendered /\ panel.completionTime <= 0) => panel.speedBonus = 0

\* C21: the tiers of the speed bonus include their upper bound: exactly 180 s
\* earns 15 and exactly 300 s earns 10, so the demo project (180 s, 25
\* commits, 6 of 8 bugs fixed) scores 135 and the medium project (300 s, 22
\* commits, 12 of 15 fixed) scores 134.
C21_TiersIncludeBound ==
    panel.rendered =>
        /\ panel.completionTime = 180 => panel.speedBonus = 15
        /\ panel.completionTime = 300 => panel.speedBonus = 10
        /\ panel.completionTime = 600 => panel.speedBonus = 5
        /\ panel.props = PanelProps(100, 180, 25, 8, 6) => panel.finalScore = 135
        /\ panel.props = PanelProps(100, 300, 22, 15, 12) => panel.finalScore = 134

\* C22: with base score 100, a commit count c >= 0 and 0 <= fixed <=
\* detected, the score lies between 100 and 165 inclusive, for every
\* completion time.
C22_ScoreRange ==
    ( /\ panel.rendered
      /\ panel.baseScore = 100
      /\ panel.commitCount >= 0
      /\ panel.totalBugsFixed >= 0
      /\ panel.totalBugsFixed <= panel.totalBugsDetected ) =>
        (100 <= panel.finalScore /\ panel.finalScore <= 165)

\* both ends of the range are scored: a project with every bonus at its
\* maximum is on screen
C22_Witness ==
    /\ panel.rendered
    /\ panel.baseScore = 100
    /\ panel.commitCount = 0
    /\ panel.totalBugsDetected > 0
    /\ panel.totalBugsFixed = panel.totalBugsDetected
    /\ panel.finalScore = 165

\* C29: ScoreBreakdownPanel and EnhancedScoreBreakdown compute the same final
\* score and the same speed, commit and quality bonuses for every input.
C29_ScoreComponentsAgree ==
    (panel.rendered /\ client.component = "EnhancedScoreBreakdown") =>
        /\ client.finalScore = panel.finalScore
        /\ client.speedBonus = panel.speedBonus
        /\ client.commitBonus = panel.commitBonus
        /\ client.qualityBonus = panel.qualityBonus

\* both components have rendered a project with more than 20 commits, a
\* completion time on a tier boundary and a quotient that needs rounding
C29_Witness ==
    /\ panel.rendered
    /\ client.component = "EnhancedScoreBreakdown"
    /\ panel.commitCount > 20
    /\ panel.completionTime = 300
    /\ panel.totalBugsDetected = 3
    /\ panel.totalBugsFixed = 1
    /\ client.finalScore = panel.baseScore + 5 + panel.commitBonus + 7

\* a name normalized in one pass from left to right: a whitespace character
\* gives an underscore unless the one before it was whitespace too, any other
\* character gives those of its capitals that are in A-Z, 0-9 or underscore
RECURSIVE NormFrom(_, _)
NormFrom(s, inRun) ==
    IF s = <<>> THEN <<>>
    ELSE IF Head(s) \in Whitespace
         THEN (IF inRun THEN <<>> ELSE <<"_">>) \o NormFrom(Tail(s), TRUE)
         ELSE SelectSeq(ToUpperChar(Head(s)),
                        LAMBDA c : c = "_" \/ c \in Digits
                                   \/ \E i \in 1..Len(UpperCase) : UpperCase[i] = c)
              \o NormFrom(Tail(s), FALSE)

MyTeamBranch ==
    <<"M", "Y", "_", "T", "E", "A", "M", "_", "A", "L", "I", "C", "E", "_", "J", "O", "H", "N", "S", "O", "N", "_", "A", "I", "_", "F", "i", "x">>

\* C23: generate(teamName, leaderName) is normTeam + "_" + normLeader +
\* "_AI_Fix", each name normalized by uppercasing, replacing each run of
\* whitespace by one underscore and deleting every character outside A-Z, 0-9
\* and underscore; generate("My Team!", "Alice Johnson") is
\* "MY_TEAM_ALICE_JOHNSON_AI_Fix".
C23_BranchNameFormat ==
    "server" \in DOMAIN client =>
        /\ client.server =
              NormFrom(client.teamName, FALSE) \o <<"_">>
              \o NormFrom(client.leaderName, FALSE)
              \o <<"_", "A", "I", "_", "F", "i", "x">>
        /\ (client.teamName = MyTeam /\ client.leaderName = AliceJohnson) =>
              client.server = MyTeamBranch

C23_Witness ==
    /\ "server" \in DOMAIN client
    /\ client.teamName = MyTeam
    /\ client.leaderName = AliceJohnson
    /\ client.server = MyTeamBranch

\* C28: the server's generateBranchName and the client's return the same
\* string for every pair of names.
C28_BranchNamesAgree ==
    ("server" \in DOMAIN client /\ "client" \in DOMAIN client) =>
        client.server = client.client

\* both sides have named a team whose name ends in a run of two different
\* whitespace characters and holds a sharp s
C28_Witness ==
    /\ "server" \in DOMAIN client
    /\ "client" \in DOMAIN client
    /\ client.teamName = <<"sz", " ", "\t">>
    /\ client.leaderName = <<"a", " ", "\t">>
    /\ client.client = <<"S", "S", "_", "_", "A", "_", "_", "A", "I", "_", "F", "i", "x">>

C25_PollsUntilTerminal ==
    (client.component = "useProject" /\ client.data # Null) =>
        LET observed == TheValue(client.data).status
        IN /\ observed \in {"pending", "running"} => client.interval = Some(PollInterval)
           /\ observed \in Terminal => client.interval = Null

\* C26: after creation no operation (status update, timeline add, timeline
\* update) changes a project's id, repoUrl, teamName, leaderName, branchName
\* or createdAt.
C26_IdentityImmutable ==
    [][\A id \in DOMAIN projects :
          /\ id \in DOMAIN projects'
          /\ projects'[id].id = projects[id].id
          /\ projects'[id].repoUrl = projects[id].repoUrl
          /\ projects'[id].teamName = projects[id].teamName
          /\ projects'[id].leaderName = projects[id].leaderName
          /\ projects'[id].branchName = projects[id].branchName
          /\ projects'[id].createdAt = projects[id].createdAt]_vars

\* a status update, a timeline add and a timeline update have all been applied
\* and the row still carries what creation gave it
C26_Witness ==
    /\ ncalls[1] >= 1
    /\ TheRow.status = "completed"
    /\ Len(TheRow.timeline) >= 2
    /\ last.op = "updateTimelineEntry"
    /\ TheRow.id = FirstId
    /\ TheRow.repoUrl = UrlGood
    /\ TheRow.teamName = GoodTeam
    /\ TheRow.leaderName = GoodLeader
    /\ TheRow.branchName = generateBranchName(GoodTeam, GoodLeader)
    /\ TheRow.createdAt = 0

\* C27: every timeline entry shown by the retry counter has an attempt number
\* a with 1 <= a <= maxRetries, so the displayed "a/maxRetries" never has a
\* numerator larger than its denominator, for every sequence of failures the
\* retry policy allows.
C27_CounterWithinBudget ==
    LET shown == CICDTimeline(TheRow.timeline, TheRow.maxRetries)
    IN \A i \in 1..Len(shown) : 1 <= shown[i][1] /\ shown[i][1] <= shown[i][3]

\* C30: for all start and end times calculateTimeDifference returns totalMs =
\* max(0, end - start) and a decomposition with hours*3600 + minutes*60 +
\* seconds = floor(totalMs/1000), 0 <= minutes < 60 and 0 <= seconds < 60; an
\* end time earlier than the start time yields zero for every field.
C30_TimeDecomposition ==
    ("timeDiff" \in DOMAIN client /\ client.timeDiff # Null) =>
        LET d == TheValue(client.timeDiff)
            start == TheValue(client.startTime)
            end == Default(client.endTime, RenderTime)
        IN /\ d.totalMs = IF end > start THEN end - start ELSE 0
           /\ d.hours >= 0
           /\ 0 <= d.minutes /\ d.minutes < 60
           /\ 0 <= d.seconds /\ d.seconds < 60
           /\ 1000 * (d.hours * 3600 + d.minutes * 60 + d.seconds) <= d.totalMs
           /\ d.totalMs < 1000 * (d.hours * 3600 + d.minutes * 60 + d.seconds + 1)
           /\ end < start =>
                 d.hours = 0 /\ d.minutes = 0 /\ d.seconds = 0 /\ d.totalMs = 0

\* a run that ends at 1 h 59 min 59.999 s and started at 1.5 s: 1 h 59 min 58 s
C30_Witness ==
    /\ "timeDiff" \in DOMAIN client
    /\ client.startTime = Some(1500)
    /\ client.timeDiff # Null
    /\ TheValue(client.timeDiff).hours = 1
    /\ TheValue(client.timeDiff).minutes = 59
    /\ TheValue(client.timeDiff).seconds = 58
    /\ TheValue(client.timeDiff).totalMs = 7198499

====
